---- MODULE Spec2Model ----
(***************************************************************************)
(* Model of the completed-task-display plugin (heliostatic).               *)
(*                                                                         *)
(* The repository holds several revisions of the plugin:                   *)
(*   "v0"  src/unnamed/part_000          hiddenState only                  *)
(*   "sel" src/main.ts                   selector (generated CSS) strategy *)
(*   "obs" src/unnamed/part_001:1-373    observer-based revision           *)
(*   "dec" src/unnamed/part_001:375-690  decoration (CodeMirror) strategy  *)
(*                                                                         *)
(* Text is modelled as a sequence of one-character strings, so that        *)
(* trimming, escaping, regular-expression matching and CSS tokenising are  *)
(* computed character by character.                                        *)
(***************************************************************************)
EXTENDS Integers, Sequences, FiniteSets, TLC

VARIABLES
    rev,          \* which revision of the plugin this behaviour runs
    phase,        \* position of the plugin / of the function under study
    settings,     \* this.settings (in-memory settings object)
    bodyClasses,  \* classes present on document.body
    statusBar,    \* this.statusBar: NoEl, or the text it shows
    styleEl,      \* this.dynamicStyleEl: NoEl, or its textContent (a rule)
    stored,       \* the host's persisted data.json for the plugin
    inflight,     \* saveData calls issued and not yet settled
    doc,          \* the document of the open markdown editor (lines)
    decorations,  \* the value of hideTasksField for that editor
    reloaded,     \* settings of a fresh plugin instance after loadSettings
    dom           \* the editor's line and gutter elements as the observer
                  \* revision writes them, and its pending observer callback

vars == <<rev, phase, settings, bodyClasses, statusBar, styleEl, stored,
          inflight, doc, decorations, reloaded, dom>>

\* An element the plugin may hold (status bar item, style element): absent,
\* or present with its text.
NoEl == [exists |-> FALSE]
El(text) == [exists |-> TRUE, text |-> text]

\* An editor the plugin has written nothing to: no line rendered, no gutter
\* element hidden, no observer callback pending
CleanDom == [lines |-> <<>>, gutters |-> {}, queued |-> FALSE]

(***************************************************************************)
(* Text helpers                                                            *)
(***************************************************************************)

\* JavaScript \s and String.prototype.trim whitespace (space and tab here).
IsWs(c) == c \in {" ", "\t"}

RECURSIVE TrimStart(_)
TrimStart(s) ==
    IF s = <<>> THEN <<>>
    ELSE IF IsWs(Head(s)) THEN TrimStart(Tail(s)) ELSE s

RECURSIVE TrimEnd(_)
TrimEnd(s) ==
    IF s = <<>> THEN <<>>
    ELSE IF IsWs(s[Len(s)]) THEN TrimEnd(SubSeq(s, 1, Len(s) - 1)) ELSE s

\* s.trim()
Trim(s) == TrimEnd(TrimStart(s))

\* val.replace(/c/g, by): every occurrence of the character c replaced by `by`
RECURSIVE ReplaceAll(_, _, _)
ReplaceAll(s, c, by) ==
    IF s = <<>> THEN <<>>
    ELSE (IF Head(s) = c THEN by ELSE <<Head(s)>>) \o ReplaceAll(Tail(s), c, by)

\* xs.filter(Boolean) on an array of strings: drops the empty strings
RECURSIVE FilterNonEmpty(_)
FilterNonEmpty(xs) ==
    IF xs = <<>> THEN <<>>
    ELSE (IF Head(xs) = <<>> THEN <<>> ELSE <<Head(xs)>>) \o FilterNonEmpty(Tail(xs))

Range(f) == {f[i] : i \in DOMAIN f}

(***************************************************************************)
(* JSON values as the host stores them (data.json) and as JavaScript holds *)
(* them in memory: each value carries its type tag, so that typeof,        *)
(* Array.isArray and truthiness are computed and not assumed.  The payload *)
(* field is named after the type (b, a, s, o).                             *)
(***************************************************************************)
JBool(b) == [t |-> "bool", b |-> b]
JArr(xs) == [t |-> "array", a |-> xs]
JStr(s) == [t |-> "string", s |-> s]
JObj(f) == [t |-> "object", o |-> f]
JNull == [t |-> "null"]

\* data.json in a state the host cannot read: the promise loadData() returns
\* is rejected
Unreadable == [t |-> "unreadable"]

\* JavaScript truthiness (if (x), !x, x || y)
Truthy(x) ==
    CASE x.t = "bool" -> x.b
      [] x.t = "string" -> x.s # <<>>
      [] x.t = "null" -> FALSE
      [] OTHER -> TRUE

\* data.k of a loaded value: defined only when data is an object holding k
Has(data, k) == data.t = "object" /\ k \in DOMAIN data.o

(***************************************************************************)
(* Revision "sel" (src/main.ts): settings and the generated CSS rule       *)
(***************************************************************************)
HideClass == "hide-completed-tasks"

DEFAULT_SETTINGS ==
    [hiddenState |-> JBool(TRUE), incompleteSymbols |-> JArr(<<>>),
     invertRule |-> JBool(FALSE)]

\* const escapeCssValue = (val) => val.replace(/\\/g, "\\\\").replace(/\"/g, '\\"')
\* (faulty variant: the second replace missing, quotes left as they are)
escapeCssValue_NoQuote(val) == ReplaceAll(val, "\\", <<"\\", "\\">>)

escapeCssValue(val) ==
    ReplaceAll(ReplaceAll(val, "\\", <<"\\", "\\">>), "\"", <<"\\", "\"">>)

\* `[data-task="${escapeCssValue(s)}"]`
AttrSelector(s) == <<"[data-task=", "\"">> \o escapeCssValue(s) \o <<"\"", "]">>

\* '[data-task=" "]'
BlankAttr == <<"[data-task=", "\"", " ", "\"", "]">>

\* exc = (incompleteSymbols || []).map(s => s.trim()).filter(Boolean)
\* (faulty variant: the map(s => s.trim()) missing)
ExcOf_NoTrim(s) ==
    FilterNonEmpty(IF Truthy(s.incompleteSymbols) THEN s.incompleteSymbols.a ELSE <<>>)

ExcOf(s) ==
    LET raw == IF Truthy(s.incompleteSymbols) THEN s.incompleteSymbols.a ELSE <<>>
    IN  FilterNonEmpty([i \in DOMAIN raw |-> Trim(raw[i])])

\* One selector of the rule: `body.hide-completed-tasks ` (the gate), then
\* the view container and the element selected there, with what the element
\* needs ([data-task], .is-checked or nothing more), its :not(...) attribute
\* exclusions and its required attribute matches.
Selector(view, needs, nots, attrs) ==
    [gate |-> HideClass, view |-> view, needs |-> needs, nots |-> nots, attrs |-> attrs]

\* ['.markdown-preview-view', '.markdown-reading-view']
PreviewViews == <<"preview", "reading">>

\* Normal mode: one selector for CM5, one for CM6, one per reading view, each
\* excluding every member of includeUnchecked
NormalSelectors(includeUnchecked) ==
    <<Selector("cm5", "data-task", includeUnchecked, <<>>),
      Selector("cm6", "data-task", includeUnchecked, <<>>)>>
    \o [k \in DOMAIN PreviewViews |->
           Selector(PreviewViews[k], "is-checked", includeUnchecked, <<>>)]

\* Invert mode: per view, one selector for each listed symbol
InvertSelectors(exceptionOnly) ==
    [i \in DOMAIN exceptionOnly |-> Selector("cm5", "any", <<>>, <<exceptionOnly[i]>>)]
    \o [i \in DOMAIN exceptionOnly |-> Selector("cm6", "any", <<>>, <<exceptionOnly[i]>>)]
    \o [i \in DOMAIN exceptionOnly |->
           Selector(PreviewViews[1], "any", <<>>, <<exceptionOnly[i]>>)]
    \o [i \in DOMAIN exceptionOnly |->
           Selector(PreviewViews[2], "any", <<>>, <<exceptionOnly[i]>>)]

\* (faulty variant: invertRule never read, the normal-mode rule always built)
buildDynamicCss_IgnoreInvert(s) ==
    LET exc == ExcOf(s)
    IN  NormalSelectors(<<BlankAttr>> \o [i \in DOMAIN exc |-> AttrSelector(exc[i])])

\* buildDynamicCss(): the rule as the sequence of its selectors; the empty
\* string '' is the empty sequence.
buildDynamicCss(s) ==
    LET exc == ExcOf(s)
        exceptionOnly == [i \in DOMAIN exc |-> AttrSelector(exc[i])]
        includeUnchecked == <<BlankAttr>> \o exceptionOnly
        invert == Truthy(s.invertRule)
    IN  IF ~invert THEN NormalSelectors(includeUnchecked)
        ELSE IF Len(exceptionOnly) = 0 THEN <<>>
        ELSE InvertSelectors(exceptionOnly)

(***************************************************************************)
(* How the style surface reads the rule: the CSS tokeniser on an attribute *)
(* selector, and selector matching against a rendered task item.           *)
(***************************************************************************)

\* Consume a double-quoted CSS string whose body starts at t[i]: a backslash
\* takes the next character literally, an unescaped quote ends the string.
RECURSIVE CssString(_, _, _)
CssString(t, i, acc) ==
    IF i > Len(t) THEN [closed |-> FALSE, at |-> i, value |-> acc]
    ELSE IF t[i] = "\\"
         THEN IF i + 1 > Len(t) THEN [closed |-> FALSE, at |-> i, value |-> acc]
              ELSE CssString(t, i + 2, Append(acc, t[i + 1]))
    ELSE IF t[i] = "\"" THEN [closed |-> TRUE, at |-> i, value |-> acc]
    ELSE CssString(t, i + 1, Append(acc, t[i]))

\* [data-task="..."]: ok iff the string closes exactly before the final ].
ParseAttr(tok) ==
    IF Len(tok) < 4 \/ tok[1] # "[data-task=" \/ tok[2] # "\""
    THEN [ok |-> FALSE, value |-> <<>>]
    ELSE LET r == CssString(tok, 3, <<>>)
         IN  [ok |-> r.closed /\ r.at + 1 = Len(tok) /\ tok[Len(tok)] = "]",
              value |-> r.value]

\* A task item with marker m as the host renders it in a view: the marker
\* is exposed as data-task, and the reading views add is-checked to every
\* item whose marker is not blank.
TaskEl(view, m) == [view |-> view, dataTask |-> m, isChecked |-> m # <<" ">>]

AttrMatches(tok, el) == ParseAttr(tok).ok /\ ParseAttr(tok).value = el.dataTask

SelectorMatches(sel, el) ==
    /\ sel.view = el.view
    /\ sel.needs = "is-checked" => el.isChecked
    /\ \A i \in DOMAIN sel.nots : ~AttrMatches(sel.nots[i], el)
    /\ \A i \in DOMAIN sel.attrs : AttrMatches(sel.attrs[i], el)

\* A selector list with one unparsable selector makes the whole rule invalid.
RuleValid(rule) ==
    \A k \in DOMAIN rule :
        /\ \A i \in DOMAIN rule[k].nots : ParseAttr(rule[k].nots[i]).ok
        /\ \A i \in DOMAIN rule[k].attrs : ParseAttr(rule[k].attrs[i]).ok

\* display: none applies to el under style text `rule` and body classes `cls`
Hidden(rule, cls, el) ==
    /\ RuleValid(rule)
    /\ \E k \in DOMAIN rule : rule[k].gate \in cls /\ SelectorMatches(rule[k], el)

\* The rule text the style surface holds: none while no style element exists
StyleText == IF styleEl.exists THEN styleEl.text ELSE <<>>

\* document.body.toggleClass(c, value)
toggleClass(cls, c, value) == IF Truthy(value) THEN cls \cup {c} ELSE cls \ {c}

\* hiddenState ? 'Hiding Completed Tasks' : 'Showing Completed Tasks'
StatusText(s) ==
    IF Truthy(s.hiddenState) THEN "Hiding Completed Tasks" ELSE "Showing Completed Tasks"

\* loadSettings() of main.ts on the value loadData() returned
\* (faulty variant: the stored hiddenState is not read, the default is taken)
loadSettings_HiddenNotRead(data) ==
    IF Truthy(data)
    THEN [hiddenState |-> DEFAULT_SETTINGS.hiddenState,
          incompleteSymbols |->
              IF Has(data, "incompleteSymbols") /\ data.o.incompleteSymbols.t = "array"
              THEN data.o.incompleteSymbols ELSE DEFAULT_SETTINGS.incompleteSymbols,
          invertRule |->
              IF Has(data, "invertRule") /\ data.o.invertRule.t = "bool"
              THEN data.o.invertRule ELSE DEFAULT_SETTINGS.invertRule]
    ELSE DEFAULT_SETTINGS

loadSettings(data) ==
    IF Truthy(data)
    THEN [hiddenState |->
              IF Has(data, "hiddenState") /\ data.o.hiddenState.t = "bool"
              THEN data.o.hiddenState ELSE DEFAULT_SETTINGS.hiddenState,
          incompleteSymbols |->
              IF Has(data, "incompleteSymbols") /\ data.o.incompleteSymbols.t = "array"
              THEN data.o.incompleteSymbols ELSE DEFAULT_SETTINGS.incompleteSymbols,
          invertRule |->
              IF Has(data, "invertRule") /\ data.o.invertRule.t = "bool"
              THEN data.o.invertRule ELSE DEFAULT_SETTINGS.invertRule]
    ELSE DEFAULT_SETTINGS

\* applyDynamicCss(): create the style element if needed, set its text
applyDynamicCss(s) == El(buildDynamicCss(s))

\* onload() of main.ts: loadSettings, status text, body class, style rule;
\* the ribbon icon, the command and the settings tab exist from here on.
\* When loadData() rejects, `await this.loadSettings()` throws out of onload
\* (there is no try/catch) and nothing after it runs.
OnLoadSel ==
    /\ rev = "sel"
    /\ phase = "constructed"
    /\ IF stored = Unreadable
       THEN /\ phase' = "failed"
            /\ UNCHANGED <<settings, statusBar, bodyClasses, styleEl>>
       ELSE /\ LET s == loadSettings(stored)
               IN  /\ settings' = s
                   /\ statusBar' = El(StatusText(s))
                   /\ bodyClasses' = toggleClass(bodyClasses, HideClass, s.hiddenState)
                   /\ styleEl' = applyDynamicCss(s)
            /\ phase' = "running"
    /\ UNCHANGED <<rev, stored, inflight, doc, decorations, reloaded, dom>>

(***************************************************************************)
(* SpecCss: the selector strategy on every stored symbol list.  The host   *)
(* hands onload() a stored blob; the rule it generates is then read back   *)
(* by the style surface.                                                   *)
(***************************************************************************)
MaxSyms == 2

\* Symbols as a user or an older version may have stored them: plain,
\* needing a trim, blank, quote, backslash, and two-character ones.
SymbolTexts ==
    { <<"!">>, <<"x">>, <<"\"">>, <<"\\">>, <<" ", "!", " ">>, <<" ">>, <<>>,
      <<"\\", "\"">> }

SymLists == UNION { [1..n -> SymbolTexts] : n \in 0..MaxSyms }

\* Markers a task line may carry between its brackets
Markers == { <<" ">>, <<"x">>, <<"X">>, <<"!">>, <<"?">>, <<"\"">>, <<"\\">> }

Views == {"cm5", "cm6", "preview", "reading"}

CssBlobs ==
    {JNull}
    \cup { JObj([hiddenState |-> JBool(h)]) : h \in BOOLEAN }
    \cup { JObj([hiddenState |-> JBool(h), incompleteSymbols |-> JArr(l),
                 invertRule |-> JBool(i)]) :
             h \in BOOLEAN, l \in SymLists, i \in BOOLEAN }

\* The plugin instance main.ts constructs: status bar item created, default
\* settings, no style element; nothing of the other revisions.
ConstructedSel ==
    /\ rev = "sel"
    /\ phase = "constructed"
    /\ settings = DEFAULT_SETTINGS
    /\ bodyClasses = {}
    /\ statusBar = El("")
    /\ styleEl = NoEl
    /\ inflight = <<>>
    /\ doc = <<>>
    /\ decorations = <<>>
    /\ reloaded = DEFAULT_SETTINGS
    /\ dom = CleanDom

InitCss == ConstructedSel /\ stored \in CssBlobs

NextCss == OnLoadSel

SpecCss == InitCss /\ [][NextCss]_vars

\* The trimmed, non-empty symbols of the current settings, as a set
ListedSymbols ==
    { Trim(settings.incompleteSymbols.a[i]) : i \in DOMAIN settings.incompleteSymbols.a }
        \ { <<>> }

\* C1: in normal mode (invertRule = false) with the body marker class set,
\* the generated rule hides a task, in every view, if and only if its marker
\* is non-blank and is not one of the trimmed incompleteSymbols; a blank
\* marker and a listed marker are never hidden.
C1_NormalModeHidesUnlisted ==
    (phase = "running" /\ ~Truthy(settings.invertRule)) =>
        \A v \in Views, m \in Markers :
            Hidden(StyleText, {HideClass}, TaskEl(v, m))
                <=> (m # <<" ">> /\ m \notin ListedSymbols)

C1_Witness ==
    /\ phase = "running"
    /\ ~Truthy(settings.invertRule)
    /\ ListedSymbols = { <<"!">>, <<"\"">> }
    /\ Hidden(StyleText, {HideClass}, TaskEl("cm6", <<"x">>))
    /\ ~Hidden(StyleText, {HideClass}, TaskEl("cm6", <<"!">>))

\* C2: in invert mode (invertRule = true) a task is hidden, in every view,
\* if and only if its marker is one of the (trimmed) incompleteSymbols; when
\* the list is empty or empty after trimming the rule is the empty string
\* and no task is hidden.
C2_InvertModeHidesListed ==
    (phase = "running" /\ Truthy(settings.invertRule)) =>
        /\ \A v \in Views, m \in Markers :
               Hidden(StyleText, {HideClass}, TaskEl(v, m)) <=> m \in ListedSymbols
        /\ ListedSymbols = {} => StyleText = <<>>

C2_Witness ==
    /\ phase = "running"
    /\ Truthy(settings.invertRule)
    /\ ListedSymbols = { <<"!">>, <<"\\">> }
    /\ Hidden(StyleText, {HideClass}, TaskEl("preview", <<"\\">>))
    /\ ~Hidden(StyleText, {HideClass}, TaskEl("preview", <<"x">>))

C2_WitnessEmpty ==
    /\ phase = "running"
    /\ Truthy(settings.invertRule)
    /\ Len(settings.incompleteSymbols.a) = 2
    /\ ListedSymbols = {}
    /\ StyleText = <<>>

\* C3: with default settings and hiding enabled, only tasks whose marker is
\* exactly x or X are hidden; every other marker stays visible.
C3_DefaultHidesOnlyXx ==
    (phase = "running" /\ settings = DEFAULT_SETTINGS) =>
        \A v \in Views, m \in Markers :
            Hidden(StyleText, bodyClasses, TaskEl(v, m)) => m \in { <<"x">>, <<"X">> }

\* The attribute-selector tokens of a rule
RuleTokens(rule) ==
    UNION { Range(rule[k].nots) \cup Range(rule[k].attrs) : k \in DOMAIN rule }

\* C9: every symbol inserted into the generated rule has its backslashes and
\* double quotes escaped: each attribute selector of the rule is read by the
\* CSS tokeniser as one complete token (no quote or backslash ends it early)
\* and the values read back are exactly the user's symbols.
C9_EscapedSymbolsReadBack ==
    phase = "running" =>
        /\ \A tok \in RuleTokens(StyleText) : ParseAttr(tok).ok
        /\ StyleText # <<>> =>
               { ParseAttr(tok).value : tok \in RuleTokens(StyleText) } \ { <<" ">> }
                   = ListedSymbols

C9_Witness ==
    /\ phase = "running"
    /\ ListedSymbols = { <<"\"">>, <<"\\">> }
    /\ StyleText # <<>>
    /\ \E tok \in RuleTokens(StyleText) : ParseAttr(tok) = [ok |-> TRUE, value |-> <<"\"">>]
    /\ \E tok \in RuleTokens(StyleText) : ParseAttr(tok) = [ok |-> TRUE, value |-> <<"\\">>]

(***************************************************************************)
(* Revision "dec" (src/unnamed/part_001:375-690): line decorations         *)
(***************************************************************************)
DEFAULT_SETTINGS_DEC ==
    [hiddenState |-> JBool(TRUE), showStatusBar |-> JBool(TRUE),
     hideSubBullets |-> JBool(FALSE)]

\* Number of leading whitespace characters of text from position i on,
\* counting a tab as 4: text.match(/^(\s*)/)[1].replace(/\t/g, "    ").length
RECURSIVE IndentFrom(_, _)
IndentFrom(text, i) ==
    IF i > Len(text) \/ ~IsWs(text[i]) THEN 0
    ELSE (IF text[i] = "\t" THEN 4 ELSE 1) + IndentFrom(text, i + 1)

getIndentLevelFromText(text) == IndentFrom(text, 1)

\* First position at or after i that holds no whitespace (greedy \s*)
RECURSIVE SkipWs(_, _)
SkipWs(text, i) ==
    IF i <= Len(text) /\ IsWs(text[i]) THEN SkipWs(text, i + 1) ELSE i

BulletChars == {"-", "*", "+"}

\* /^(\s*[-*+])\s+\[(x|X)\]/.test(lineText)
\* (faulty variant: the alternative X missing from the group)
isCompletedTask_LowerOnly(lineText) ==
    LET b == SkipWs(lineText, 1)
        k == SkipWs(lineText, b + 1)
    IN  /\ b <= Len(lineText) /\ lineText[b] \in BulletChars
        /\ k > b + 1
        /\ k + 2 <= Len(lineText)
        /\ lineText[k] = "[" /\ lineText[k + 1] = "x" /\ lineText[k + 2] = "]"

isCompletedTask(lineText) ==
    LET b == SkipWs(lineText, 1)        \* ^\s* ends here, at the bullet
        k == SkipWs(lineText, b + 1)    \* \s+ ends here, at the bracket
    IN  /\ b <= Len(lineText) /\ lineText[b] \in BulletChars
        /\ k > b + 1
        /\ k + 2 <= Len(lineText)
        /\ lineText[k] = "[" /\ lineText[k + 1] \in {"x", "X"} /\ lineText[k + 2] = "]"

\* The inner loop of buildLineDecorations from line j on: the lines added as
\* sub-bullets of a task of indentation taskIndent.
\* (faulty variant: a line indented no deeper than the task is passed over
\* instead of ending the loop)
RECURSIVE SubBulletLines_NoBreak(_, _, _)
RECURSIVE SubBulletLines(_, _, _)
SubBulletLines_NoBreak(d, taskIndent, j) ==
    IF j > Len(d) THEN <<>>
    ELSE IF Trim(d[j]) = <<>> THEN SubBulletLines_NoBreak(d, taskIndent, j + 1)
    ELSE IF getIndentLevelFromText(d[j]) <= taskIndent
         THEN SubBulletLines_NoBreak(d, taskIndent, j + 1)
    ELSE <<j>> \o SubBulletLines_NoBreak(d, taskIndent, j + 1)

SubBulletLines(d, taskIndent, j) ==
    IF j > Len(d) THEN <<>>
    ELSE IF Trim(d[j]) = <<>> THEN SubBulletLines(d, taskIndent, j + 1)
    ELSE IF getIndentLevelFromText(d[j]) <= taskIndent THEN <<>>
    ELSE <<j>> \o SubBulletLines(d, taskIndent, j + 1)

\* The outer loop of buildLineDecorations from line lineNum on
RECURSIVE TaskLinesFrom(_, _, _)
TaskLinesFrom(d, s, lineNum) ==
    IF lineNum > Len(d) THEN <<>>
    ELSE (IF isCompletedTask(d[lineNum])
          THEN <<lineNum>> \o
               (IF Truthy(s.hideSubBullets)
                THEN SubBulletLines(d, getIndentLevelFromText(d[lineNum]), lineNum + 1)
                ELSE <<>>)
          ELSE <<>>)
         \o TaskLinesFrom(d, s, lineNum + 1)

\* buildLineDecorations(state): the lines handed to builder.add, one replace
\* decoration over each (line.from .. line.to), in the order they are added.
\* (faulty variant: the early return on !settings.hiddenState missing)
buildLineDecorations_IgnoreHidden(d, s) == TaskLinesFrom(d, s, 1)

buildLineDecorations(d, s) ==
    IF ~Truthy(s.hiddenState) THEN <<>> ELSE TaskLinesFrom(d, s, 1)

\* hideTasksField.create / update with tr.docChanged: the editor holds a new
\* document and the field rebuilds its decorations from it.
DocChanged(newDoc) ==
    /\ rev = "dec"
    /\ doc' = newDoc
    /\ decorations' = buildLineDecorations(newDoc, settings)
    /\ UNCHANGED <<rev, phase, settings, bodyClasses, statusBar, styleEl, stored,
                   inflight, reloaded, dom>>

\* An editor of the decoration revision whose facet holds settings s
EditorDec(s) ==
    /\ rev = "dec"
    /\ phase = "running"
    /\ settings = s
    /\ bodyClasses = {}
    /\ statusBar = NoEl
    /\ styleEl = NoEl
    /\ stored = JNull
    /\ inflight = <<>>
    /\ doc = <<>>
    /\ decorations = buildLineDecorations(<<>>, s)
    /\ reloaded = DEFAULT_SETTINGS_DEC
    /\ dom = CleanDom

DecSettings ==
    { [hiddenState |-> JBool(h), showStatusBar |-> JBool(TRUE), hideSubBullets |-> JBool(b)] :
        h \in BOOLEAN, b \in BOOLEAN }

HiddenLines == Range(decorations)

(***************************************************************************)
(* SpecLine: one-line documents built from every combination of leading    *)
(* text, bullet, separator, checkbox token and tail.                       *)
(***************************************************************************)
Leads == { <<>>, <<" ">>, <<"\t">>, <<" ", " ">>, <<"a">>, <<"a", " ">> }
Bullets == { <<"-">>, <<"*">>, <<"+">>, <<"o">>, <<>>, <<"-", "-">> }
Seps == { <<>>, <<" ">>, <<"\t">>, <<" ", " ">>, <<" ", "\t">>, <<"a">>, <<" ", "a", " ">> }
Tokens ==
    { <<"[", "x", "]">>, <<"[", "X", "]">>, <<"[", "o", "]">>, <<"[", "X", " ", "]">>,
      <<"[", " ", "]">>, <<"[", "x">>, <<"x", "]">>, <<"[", "x", "x", "]">>,
      <<"[", "]">>, <<"x">>, <<"[", " ", "x", "]">>, <<"(", "x", ")">> }
Tails == { <<>>, <<" ", "T">> }

InitLine == \E s \in DecSettings : EditorDec(s)

OpenLine ==
    /\ doc = <<>>
    /\ \E l \in Leads, b \in Bullets, p \in Seps, t \in Tokens, e \in Tails :
           DocChanged(<<l \o b \o p \o t \o e>>)

NextLine == OpenLine

SpecLine == InitLine /\ [][NextLine]_vars

\* text begins with: whitespace*, one bullet, one or more separator
\* characters accepted by SepOk, then [x] or [X]
CompletedShape(text, SepOk(_)) ==
    \E i \in 0..Len(text), k \in 1..Len(text) :
        /\ i + k + 4 <= Len(text)
        /\ \A p \in 1..i : IsWs(text[p])
        /\ text[i + 1] \in BulletChars
        /\ \A p \in (i + 2)..(i + 1 + k) : SepOk(text[p])
        /\ text[i + k + 2] = "["
        /\ text[i + k + 3] \in {"x", "X"}
        /\ text[i + k + 4] = "]"

IsSpace(c) == c = " "

\* C4 as stated: a line is treated as a completed task line if and only if
\* it is optional leading whitespace, one bullet (-, * or +), one or more
\* SPACES, then [x] or [X].
C4_CompletedIffSpacesShape ==
    Truthy(settings.hiddenState) =>
        \A n \in DOMAIN doc : (n \in HiddenLines) <=> CompletedShape(doc[n], IsSpace)

\* C4 (amended): a line is treated as a completed task line if and only if
\* it is optional leading whitespace, one bullet (-, * or +), one or more
\* whitespace characters (spaces or tabs), then [x] or [X]; [o] and [X ]
\* are never treated as completed.
C4_CompletedIffWhitespaceShape ==
    Truthy(settings.hiddenState) =>
        \A n \in DOMAIN doc :
            /\ (n \in HiddenLines) <=> CompletedShape(doc[n], IsWs)
            /\ (\E l \in Leads, b \in Bullets, p \in Seps, e \in Tails :
                    doc[n] \in { l \o b \o p \o <<"[", "o", "]">> \o e,
                                 l \o b \o p \o <<"[", "X", " ", "]">> \o e })
                   => n \notin HiddenLines

C4_Witness ==
    /\ Truthy(settings.hiddenState)
    /\ doc = << <<" ", " ", "*", " ", " ", "[", "X", "]", " ", "T">> >>
    /\ decorations = <<1>>

C4_WitnessNot ==
    /\ Truthy(settings.hiddenState)
    /\ doc = << <<"-", " ", "[", "X", " ", "]">> >>
    /\ decorations = <<>>

(***************************************************************************)
(* SpecDec: documents typed line by line into an editor of the decoration  *)
(* revision; every change of the document rebuilds the decorations.        *)
(***************************************************************************)
MaxLines == 4

TaskLine == <<"-", " ", "[", "x", "]", " ", "T">>          \* "- [x] T"
NestedTaskLine == <<" ", " ", "-", " ", "[", "X", "]">>    \* "  - [X]"
SubLine == <<" ", " ", "-", " ", "s", "u", "b">>           \* "  - sub"
TabSubLine == <<"\t", "-", " ", "b">>                      \* "<tab>- b"
OtherLine == <<"-", " ", "[", " ", "]", " ", "O">>         \* "- [ ] O"
EmptyLine == <<>>                                          \* ""
SpacesLine == <<" ", " ", " ">>                            \* "   "

DocLines ==
    { TaskLine, NestedTaskLine, SubLine, TabSubLine, OtherLine, EmptyLine, SpacesLine }

InitDec == \E s \in DecSettings : EditorDec(s)

TypeLine ==
    /\ Len(doc) < MaxLines
    /\ \E l \in DocLines : DocChanged(Append(doc, l))

NextDec == TypeLine

SpecDec == InitDec /\ [][NextDec]_vars

IsBlankLine(text) == \A p \in DOMAIN text : IsWs(text[p])

\* The line that ends the block under task line t: the first following
\* non-blank line indented no deeper than t (Len(doc) + 1 when there is none)
BlockEnd(t) ==
    LET stops == { j \in (t + 1)..Len(doc) :
                     /\ ~IsBlankLine(doc[j])
                     /\ getIndentLevelFromText(doc[j]) <= getIndentLevelFromText(doc[t]) }
    IN  IF stops = {} THEN Len(doc) + 1 ELSE CHOOSE j \in stops : \A k \in stops : j <= k

HidingSubBullets == Truthy(settings.hiddenState) /\ Truthy(settings.hideSubBullets)

\* C5: with hiddenState and hideSubBullets on, each completed task line is
\* hidden together with every following line indented strictly deeper than
\* it, up to but not including the first following line indented no deeper;
\* task, sub, sub, other hides lines 1 to 3 and not line 4.
C5_HidesDescendantBlock ==
    HidingSubBullets =>
        /\ \A t \in DOMAIN doc : isCompletedTask(doc[t]) =>
               /\ t \in HiddenLines
               /\ \A j \in (t + 1)..(BlockEnd(t) - 1) :
                      getIndentLevelFromText(doc[j]) > getIndentLevelFromText(doc[t])
                          => j \in HiddenLines
        /\ doc = <<TaskLine, SubLine, SubLine, OtherLine>> => HiddenLines = {1, 2, 3}

\* C6: with hiddenState and hideSubBullets on, a blank line inside the block
\* of a completed task does not end the block and is itself hidden when it
\* comes before the line that ends the block.
C6_BlankLinesInBlockHidden ==
    HidingSubBullets =>
        \A t \in DOMAIN doc : isCompletedTask(doc[t]) =>
            \A j \in (t + 1)..(BlockEnd(t) - 1) :
                /\ (~IsBlankLine(doc[j])
                       /\ getIndentLevelFromText(doc[j]) > getIndentLevelFromText(doc[t]))
                     => j \in HiddenLines
                /\ (IsBlankLine(doc[j]) /\ BlockEnd(t) <= Len(doc)) => j \in HiddenLines

\* C7: the ranges the builder emits are in strictly increasing document
\* position, so no line is emitted twice, also when a completed task line is
\* nested under another completed task line with hideSubBullets on.
C7_RangesStrictlyIncreasing ==
    \A i \in 1..(Len(decorations) - 1) : decorations[i] < decorations[i + 1]

\* Line n lies in the block under line t: after it, indented strictly deeper,
\* and every line in between is blank or indented deeper than t
InBlockUnder(n, t) ==
    /\ t < n
    /\ getIndentLevelFromText(doc[n]) > getIndentLevelFromText(doc[t])
    /\ \A k \in (t + 1)..(n - 1) :
           IsBlankLine(doc[k])
               \/ getIndentLevelFromText(doc[k]) > getIndentLevelFromText(doc[t])

CompletedLines == { n \in DOMAIN doc : isCompletedTask(doc[n]) }

\* C23: a line is hidden only if it is itself a completed task line, or
\* hideSubBullets is true and it lies after a completed task line with
\* strictly greater indentation and no non-blank line of indentation less than
\* or equal to that task's in between; while hiding is on and hideSubBullets
\* is false, exactly the completed task lines are hidden.
C23_HiddenOnlyTasksAndTheirBlocks ==
    /\ \A n \in HiddenLines :
           /\ n \in DOMAIN doc
           /\ \/ n \in CompletedLines
              \/ /\ Truthy(settings.hideSubBullets)
                 /\ \E t \in CompletedLines : InBlockUnder(n, t)
    /\ (Truthy(settings.hiddenState) /\ ~Truthy(settings.hideSubBullets))
           => HiddenLines = CompletedLines

\* A deeper line after the end of a completed task's block stays visible
C23_Witness ==
    /\ HidingSubBullets
    /\ doc = <<TaskLine, SubLine, OtherLine, SubLine>>
    /\ HiddenLines = {1, 2}

\* With hideSubBullets off the sub-bullet of a completed task stays visible
C23_WitnessOff ==
    /\ Truthy(settings.hiddenState) /\ ~Truthy(settings.hideSubBullets)
    /\ doc = <<TaskLine, SubLine, NestedTaskLine>>
    /\ HiddenLines = {1, 3}

(***************************************************************************)
(* Persistence of the settings in the three revisions that the claims      *)
(* name: "v0" (saveHiddenState / loadHiddenState), "sel" and "dec"         *)
(* (saveSettings / loadSettings).                                          *)
(***************************************************************************)

\* hiddenState: boolean = true (field initialiser of revision "v0")
DEFAULT_V0 == [hiddenState |-> JBool(TRUE)]

\* What saveData receives:
\*   v0   saveData({ hiddenState: this.hiddenState })
\*   sel  saveData({ ...this.settings })
\*   dec  saveData(this.settings)
SavedBlob(r, s) ==
    IF r = "v0" THEN JObj([hiddenState |-> s.hiddenState]) ELSE JObj(s)

\* loadHiddenState() on the value loadData() returned; cur is this.hiddenState
loadHiddenState(data, cur) ==
    IF Truthy(data) /\ Has(data, "hiddenState") /\ data.o.hiddenState.t = "bool"
    THEN [hiddenState |-> data.o.hiddenState]
    ELSE cur

\* Object.assign({}, DEFAULT_SETTINGS, await this.loadData())
\* (faulty variant: the arguments of Object.assign swapped, defaults win)
loadSettingsDec_DefaultsWin(data) ==
    IF data.t = "object"
    THEN [k \in DOMAIN DEFAULT_SETTINGS_DEC \cup DOMAIN data.o |->
             IF k \in DOMAIN DEFAULT_SETTINGS_DEC THEN DEFAULT_SETTINGS_DEC[k] ELSE data.o[k]]
    ELSE DEFAULT_SETTINGS_DEC

loadSettingsDec(data) ==
    IF data.t = "object"
    THEN [k \in DOMAIN DEFAULT_SETTINGS_DEC \cup DOMAIN data.o |->
             IF k \in DOMAIN data.o THEN data.o[k] ELSE DEFAULT_SETTINGS_DEC[k]]
    ELSE DEFAULT_SETTINGS_DEC

\* The settings a newly constructed instance holds before it loads
DefaultsOf(r) ==
    CASE r = "v0" -> DEFAULT_V0
      [] r = "sel" -> DEFAULT_SETTINGS
      [] OTHER -> DEFAULT_SETTINGS_DEC

\* load() of revision r in a newly constructed instance
LoadOf(r, data) ==
    CASE r = "v0" -> loadHiddenState(data, DEFAULT_V0)
      [] r = "sel" -> loadSettings(data)
      [] OTHER -> loadSettingsDec(data)

(***************************************************************************)
(* SpecStore: a running instance saves its settings, then a newly          *)
(* constructed instance (the same revision, or a later one reading the old *)
(* { hiddenState } shape) loads them.                                      *)
(***************************************************************************)
StoreRevs == {"v0", "sel", "dec"}

\* In-memory settings a running instance of revision r can hold
SettingsOf(r) ==
    CASE r = "v0" -> { [hiddenState |-> JBool(h)] : h \in BOOLEAN }
      [] r = "sel" ->
            { [hiddenState |-> JBool(h), incompleteSymbols |-> JArr(l),
               invertRule |-> JBool(i)] : h \in BOOLEAN, l \in SymLists, i \in BOOLEAN }
      [] OTHER ->
            { [hiddenState |-> JBool(h), showStatusBar |-> JBool(b),
               hideSubBullets |-> JBool(u)] : h \in BOOLEAN, b \in BOOLEAN, u \in BOOLEAN }

InitStore ==
    /\ rev \in StoreRevs
    /\ phase = "running"
    /\ settings \in SettingsOf(rev)
    /\ bodyClasses = {}
    /\ statusBar = NoEl
    /\ styleEl = NoEl
    /\ stored = JNull
    /\ inflight = <<>>
    /\ doc = <<>>
    /\ decorations = <<>>
    /\ reloaded = DefaultsOf(rev)
    /\ dom = CleanDom

\* save(s): saveData has written the settings of the running instance (and,
\* in "sel", saveSettings has then refreshed the style rule)
SaveDone ==
    /\ phase = "running"
    /\ stored' = SavedBlob(rev, settings)
    /\ styleEl' = IF rev = "sel" THEN applyDynamicCss(settings) ELSE styleEl
    /\ phase' = "saved"
    /\ UNCHANGED <<rev, settings, bodyClasses, statusBar, inflight, doc, decorations,
                   reloaded, dom>>

\* load(): a newly constructed instance of revision r reads the stored data
LoadAgain(r) ==
    /\ phase = "saved"
    /\ r = rev \/ rev = "v0"
    /\ reloaded' = LoadOf(r, stored)
    /\ rev' = r
    /\ phase' = "reloaded"
    /\ UNCHANGED <<settings, bodyClasses, statusBar, styleEl, stored, inflight, doc,
                   decorations, dom>>

NextStore == SaveDone \/ \E r \in StoreRevs : LoadAgain(r)

SpecStore == InitStore /\ [][NextStore]_vars

\* C10: save(s) followed by load() yields settings equal to s on every field
\* s defines, and every field of the loading revision that s omits takes
\* its documented default.
C10_SaveLoadRoundTrip ==
    phase = "reloaded" =>
        /\ \A k \in DOMAIN settings : k \in DOMAIN reloaded /\ reloaded[k] = settings[k]
        /\ \A k \in DOMAIN DefaultsOf(rev) \ DOMAIN settings :
               k \in DOMAIN reloaded /\ reloaded[k] = DefaultsOf(rev)[k]
        /\ DOMAIN reloaded = DOMAIN settings \cup DOMAIN DefaultsOf(rev)

C10_Witness ==
    /\ phase = "reloaded"
    /\ rev = "dec"
    /\ settings = [hiddenState |-> JBool(FALSE), showStatusBar |-> JBool(FALSE),
                   hideSubBullets |-> JBool(TRUE)]
    /\ reloaded = settings

C10_WitnessOldShape ==
    /\ phase = "reloaded"
    /\ rev = "sel"
    /\ settings = [hiddenState |-> JBool(FALSE)]
    /\ reloaded = [hiddenState |-> JBool(FALSE), incompleteSymbols |-> JArr(<<>>),
                   invertRule |-> JBool(FALSE)]

(***************************************************************************)
(* SpecLoad: a newly constructed instance loads whatever data.json holds:  *)
(* nothing, the old { hiddenState } shape, the settings of another         *)
(* revision, or fields whose values have another type than the one the     *)
(* settings interface declares.                                            *)
(***************************************************************************)
FieldNames ==
    {"hiddenState", "incompleteSymbols", "invertRule", "showStatusBar", "hideSubBullets"}

\* Values a stored field may hold: the two booleans, a string, an array
FieldValues == { JBool(TRUE), JBool(FALSE), JStr(<<"n", "o">>), JArr(<< <<"!">> >>) }

LoadBlobs ==
    {JNull} \cup { JObj(f) : f \in UNION { [S -> FieldValues] : S \in SUBSET FieldNames } }

InitLoad ==
    /\ rev \in StoreRevs
    /\ phase = "saved"
    /\ settings = DefaultsOf(rev)
    /\ bodyClasses = {}
    /\ statusBar = NoEl
    /\ styleEl = NoEl
    /\ stored \in LoadBlobs
    /\ inflight = <<>>
    /\ doc = <<>>
    /\ decorations = <<>>
    /\ reloaded = DefaultsOf(rev)
    /\ dom = CleanDom

NextLoad == \E r \in StoreRevs : LoadAgain(r)

SpecLoad == InitLoad /\ [][NextLoad]_vars

\* C11: loading a stored object that holds only { hiddenState } yields
\* settings with that hiddenState and every newer field of the loading
\* revision (incompleteSymbols, invertRule, showStatusBar, hideSubBullets) at
\* its default.
C11_OldShapeLoads ==
    (/\ phase = "reloaded"
     /\ stored.t = "object"
     /\ DOMAIN stored.o = {"hiddenState"}
     /\ stored.o.hiddenState.t = "bool")
        => reloaded = [DefaultsOf(rev) EXCEPT !.hiddenState = stored.o.hiddenState]

C11_Witness ==
    /\ phase = "reloaded"
    /\ rev = "sel"
    /\ stored = JObj([hiddenState |-> JBool(FALSE)])
    /\ reloaded = [hiddenState |-> JBool(FALSE), incompleteSymbols |-> JArr(<<>>),
                   invertRule |-> JBool(FALSE)]

C11_WitnessDec ==
    /\ phase = "reloaded"
    /\ rev = "dec"
    /\ stored = JObj([hiddenState |-> JBool(FALSE)])
    /\ reloaded = [hiddenState |-> JBool(FALSE), showStatusBar |-> JBool(TRUE),
                   hideSubBullets |-> JBool(FALSE)]

\* The type the settings interface declares for field k
WellTyped(k, x) == IF k = "incompleteSymbols" THEN x.t = "array" ELSE x.t = "bool"

\* C13: load() recovers per field: a field of the loading revision that is
\* missing from the stored blob or has the wrong type loads as that field's
\* default, every well-typed stored field keeps its stored value, and no
\* wrong-typed value reaches the in-memory settings.
C13_PerFieldRecovery ==
    phase = "reloaded" =>
        /\ \A k \in DOMAIN DefaultsOf(rev) :
               /\ k \in DOMAIN reloaded
               /\ reloaded[k] = IF Has(stored, k) /\ WellTyped(k, stored.o[k])
                                THEN stored.o[k] ELSE DefaultsOf(rev)[k]
        /\ \A k \in DOMAIN reloaded : WellTyped(k, reloaded[k])

(***************************************************************************)
(* Revision "obs" (src/unnamed/part_001:1-373): a MutationObserver and     *)
(* writes to the editor's line and gutter elements.  dom.lines are the     *)
(* .cm-line elements of the editor in document order, dom.gutters the      *)
(* positions whose .cm-gutterElement carries data-hidden-by-plugin (with   *)
(* display none and height 0px), dom.queued whether the observer callback  *)
(* is waiting to run.                                                      *)
(***************************************************************************)

\* A .cm-line element as the host renders it: class HyperMD-task-line or
\* not, its data-task attribute, the number getIndentLevel reads from it;
\* no class hide-nested-item and no inline display yet
LineEl(taskLine, dataTask, indent) ==
    [taskLine |-> taskLine, dataTask |-> dataTask, indent |-> indent,
     nested |-> FALSE, display |-> ""]

\* line.classList.contains("HyperMD-task-line") &&
\*   (data-task === "x" || data-task === "X")
isCompletedTaskEl(line) == line.taskLine /\ line.dataTask \in {"x", "X"}

CompletedEls(lines) == { i \in DOMAIN lines : isCompletedTaskEl(lines[i]) }

\* The inner loop of updateNestedItemVisibility for the task at position i:
\* the following lines up to the first one indented no deeper than the task
NestedUnder(lines, i) ==
    { j \in (i + 1)..Len(lines) :
        \A k \in (i + 1)..j : lines[k].indent > lines[i].indent }

\* restoreGutterElements(): every gutter element carrying
\* data-hidden-by-plugin is shown again
restoreGutterElements(d) == [d EXCEPT !.gutters = {}]

\* hideGutterElementForLine(line) for the lines at the positions in is: the
\* gutter element at the line's position is hidden and marked
hideGutterElementForLines(d, is) == [d EXCEPT !.gutters = @ \cup is]

\* hideCompletedTaskGutters()
hideCompletedTaskGutters(d, s) ==
    IF ~Truthy(s.hiddenState) THEN d
    ELSE hideGutterElementForLines(d, CompletedEls(d.lines))

\* updateNestedItemVisibility()
updateNestedItemVisibility(d, s) ==
    IF ~Truthy(s.hideSubBullets) \/ ~Truthy(s.hiddenState)
    THEN restoreGutterElements(
             [d EXCEPT !.lines =
                 [i \in DOMAIN d.lines |->
                     IF d.lines[i].nested
                     THEN [d.lines[i] EXCEPT !.nested = FALSE, !.display = ""]
                     ELSE d.lines[i]]])
    ELSE LET children == UNION { NestedUnder(d.lines, i) : i \in CompletedEls(d.lines) }
         IN  hideGutterElementForLines(
                 restoreGutterElements(
                     [d EXCEPT !.lines =
                         [i \in DOMAIN d.lines |->
                             IF i \in children
                             THEN [d.lines[i] EXCEPT !.nested = TRUE, !.display = "none"]
                             ELSE [d.lines[i] EXCEPT !.nested = FALSE]]]),
                 children)

\* A mutation record: a change of the children of an element, or of one of
\* its attributes
ChildList == [type |-> "childList", attributeName |-> ""]
Attribute(name) == [type |-> "attributes", attributeName |-> name]

\* The attributes the plugin writes on line and gutter elements: the class
\* hide-nested-item, the inline style, data-hidden-by-plugin
PluginWrites == { Attribute("class"), Attribute("style"), Attribute("data-hidden-by-plugin") }

\* The records the observer is registered for:
\* { childList: true, subtree: true, attributes: true, attributeFilter: ["data-task"] }
\* (faulty variant: attributes: true without the attributeFilter)
Observes_NoFilter(m) == m.type \in {"childList", "attributes"}

Observes(m) ==
    \/ m.type = "childList"
    \/ m.type = "attributes" /\ m.attributeName \in {"data-task"}

\* The editor after mutations ms under the workspace element: the callback
\* is queued when the observer is connected and is registered for one of them
Mutated(d, observing, ms) ==
    [d EXCEPT !.queued = @ \/ (observing /\ \E m \in ms : Observes(m))]

\* The body of the MutationObserver callback
observerCallback(d, s) ==
    LET d1 == IF Truthy(s.hideSubBullets) THEN updateNestedItemVisibility(d, s) ELSE d
    IN  IF Truthy(s.hiddenState) THEN hideCompletedTaskGutters(d1, s) ELSE d1

(***************************************************************************)
(* The running plugin.  Handlers run to their first await in one step; a    *)
(* saveData call stays in flight until the host settles it, and the code   *)
(* after the await runs when it resolves.                                  *)
(***************************************************************************)
MaxInFlight == 2

SubBulletsClass == "hide-sub-bullets"

\* this.settings before loadSettings has assigned it (revision "dec")
Undefined == [t |-> "undefined"]

\* A saveData call in flight: the data handed to the host, and the code that
\* follows the await (with the handler's argument)
SaveCall(data, after, value) == [data |-> data, after |-> after, value |-> value]

CanSave == Len(inflight) < MaxInFlight

\* ---- revision "sel" (src/main.ts) ----

\* updateBodyClasses() of the decoration revision
updateBodyClasses(cls, s) ==
    toggleClass(toggleClass(cls, HideClass, s.hiddenState), SubBulletsClass, s.hideSubBullets)

\* The status bar after `if (this.statusBar && this.settings.showStatusBar) setText(..)`
StatusAfterSetText(bar, s) ==
    IF bar.exists /\ Truthy(s.showStatusBar) THEN El(StatusText(s)) ELSE bar

\* What a handler reads and writes of the plugin and the page
Machine ==
    [settings |-> settings, bodyClasses |-> bodyClasses, statusBar |-> statusBar,
     styleEl |-> styleEl, decorations |-> decorations]

\* toggleCompletedTaskView() of revision r up to `await this.saveSettings()`:
\* flip hiddenState, toggle the body class, set the status text and (in the
\* decoration revision) rebuild the decorations of the open editor
toggleCompletedTaskView(r, st) ==
    LET s == [st.settings EXCEPT !.hiddenState = JBool(~Truthy(st.settings.hiddenState))]
    IN  [st EXCEPT
           !.settings = s,
           !.bodyClasses = toggleClass(st.bodyClasses, HideClass, s.hiddenState),
           !.statusBar = IF r = "sel" THEN El(StatusText(s))
                         ELSE StatusAfterSetText(st.statusBar, s),
           !.decorations = IF r = "dec" THEN buildLineDecorations(doc, s)
                           ELSE st.decorations]

\* The code after `await this.saveData(..)` in saveSettings(): main.ts
\* refreshes the style rule, the decoration revision has none
afterSaveSettings(r, st) ==
    IF r = "sel" THEN [st EXCEPT !.styleEl = applyDynamicCss(st.settings)] ELSE st

\* The two callbacks onload registers that call toggleCompletedTaskView()
EntryPoints == {"ribbon", "command"}

\* toggleCompletedTaskView() up to `await this.saveSettings()`, called by the
\* callback of the ribbon icon or of the command
\* (faulty variant: the ribbon callback flips the state and does not save)
ToggleSel_RibbonNoSave(via) ==
    /\ rev = "sel"
    /\ phase = "running"
    /\ via \in EntryPoints
    /\ CanSave
    /\ LET st == toggleCompletedTaskView("sel", Machine)
       IN  /\ settings' = st.settings
           /\ bodyClasses' = st.bodyClasses
           /\ statusBar' = st.statusBar
           /\ inflight' = IF via = "ribbon" THEN inflight
                          ELSE Append(inflight,
                                      SaveCall(SavedBlob("sel", st.settings), "css", TRUE))
    /\ UNCHANGED <<rev, phase, styleEl, stored, doc, decorations, reloaded, dom>>

ToggleSel(via) ==
    /\ rev = "sel"
    /\ phase = "running"
    /\ via \in EntryPoints
    /\ CanSave
    /\ LET st == toggleCompletedTaskView("sel", Machine)
       IN  /\ settings' = st.settings
           /\ bodyClasses' = st.bodyClasses
           /\ statusBar' = st.statusBar
           /\ inflight' = Append(inflight,
                                 SaveCall(SavedBlob("sel", st.settings), "css", TRUE))
    /\ UNCHANGED <<rev, phase, styleEl, stored, doc, decorations, reloaded, dom>>

IsSep(c) == c = "," \/ IsWs(c)

\* value.split(/[,\s]+/): the pieces between maximal runs of separators,
\* with an empty piece where the text starts or ends with a separator
RECURSIVE SplitFrom(_, _, _)
SplitFrom(value, i, piece) ==
    IF i > Len(value) THEN <<piece>>
    ELSE IF IsSep(value[i])
         THEN IF i > 1 /\ IsSep(value[i - 1])
              THEN SplitFrom(value, i + 1, piece)
              ELSE <<piece>> \o SplitFrom(value, i + 1, <<>>)
    ELSE SplitFrom(value, i + 1, Append(piece, value[i]))

\* value.split(/[,\s]+/).map(s => s.trim()).filter(Boolean)
\* (faulty variant: the filter(Boolean) missing, empty pieces kept)
ParseSymbols_NoFilter(value) ==
    LET pieces == SplitFrom(value, 1, <<>>)
    IN  [i \in DOMAIN pieces |-> Trim(pieces[i])]

ParseSymbols(value) ==
    LET pieces == SplitFrom(value, 1, <<>>)
    IN  FilterNonEmpty([i \in DOMAIN pieces |-> Trim(pieces[i])])

\* Texts typed into the symbols field
InputTexts ==
    { <<"!", ",", " ", "?">>, <<>>, <<" ", "x", ",", ",", "x", " ">> }

\* onChange of the symbols text field, up to `await saveSettings()`
SymbolsOnChange(value) ==
    /\ rev = "sel"
    /\ phase = "running"
    /\ CanSave
    /\ LET s == [settings EXCEPT !.incompleteSymbols = JArr(ParseSymbols(value))]
       IN  /\ settings' = s
           /\ inflight' = Append(inflight, SaveCall(SavedBlob("sel", s), "css", TRUE))
    /\ UNCHANGED <<rev, phase, bodyClasses, statusBar, styleEl, stored, doc, decorations,
                   reloaded, dom>>

\* onChange of the invert toggle, up to `await saveSettings()`
InvertOnChange(value) ==
    /\ rev = "sel"
    /\ phase = "running"
    /\ CanSave
    /\ LET s == [settings EXCEPT !.invertRule = JBool(value)]
       IN  /\ settings' = s
           /\ inflight' = Append(inflight, SaveCall(SavedBlob("sel", s), "css", TRUE))
    /\ UNCHANGED <<rev, phase, bodyClasses, statusBar, styleEl, stored, doc, decorations,
                   reloaded, dom>>

\* ---- revision "dec" (src/unnamed/part_001:375-690) ----

\* onload() up to the registration of the layout-ready callback: settings
\* loaded, status bar item created, command and settings tab registered, the
\* editor extension registered (the open editor creates hideTasksField).
\* When loadData() rejects, the catch block of onload assigns the default
\* settings and nothing else of the try block has run.
OnLoadDec ==
    /\ rev = "dec"
    /\ phase = "constructed"
    /\ IF stored = Unreadable
       THEN /\ settings' = DEFAULT_SETTINGS_DEC
            /\ phase' = "failed"
            /\ UNCHANGED <<statusBar, decorations>>
       ELSE /\ LET s == loadSettingsDec(stored)
               IN  /\ settings' = s
                   /\ statusBar' = IF Truthy(s.showStatusBar) THEN El("") ELSE NoEl
                   /\ decorations' = buildLineDecorations(doc, s)
            /\ phase' = "loaded"
    /\ UNCHANGED <<rev, bodyClasses, styleEl, stored, inflight, doc, reloaded, dom>>

\* The onLayoutReady callback: body classes, status text, ribbon icon
LayoutReady ==
    /\ rev = "dec"
    /\ phase = "loaded"
    /\ bodyClasses' = updateBodyClasses(bodyClasses, settings)
    /\ statusBar' = StatusAfterSetText(statusBar, settings)
    /\ phase' = "running"
    /\ UNCHANGED <<rev, settings, styleEl, stored, inflight, doc, decorations, reloaded, dom>>

\* toggleCompletedTaskView() up to `await this.saveSettings()`: from the
\* command once onload has registered it, from the ribbon once laid out
ToggleDec(via) ==
    /\ rev = "dec"
    /\ \/ via = "command" /\ phase \in {"loaded", "running"}
       \/ via = "ribbon" /\ phase = "running"
    /\ CanSave
    /\ LET st == toggleCompletedTaskView("dec", Machine)
       IN  /\ settings' = st.settings
           /\ bodyClasses' = st.bodyClasses
           /\ statusBar' = st.statusBar
           /\ decorations' = st.decorations
           /\ inflight' = Append(inflight,
                                 SaveCall(SavedBlob("dec", st.settings), "none", TRUE))
    /\ UNCHANGED <<rev, phase, styleEl, stored, doc, reloaded, dom>>

\* onChange of the hide-sub-bullets toggle, up to `await saveSettings()`
HideSubBulletsOnChange(value) ==
    /\ rev = "dec"
    /\ phase \in {"loaded", "running"}
    /\ CanSave
    /\ LET s == [settings EXCEPT !.hideSubBullets = JBool(value)]
       IN  /\ settings' = s
           /\ inflight' = Append(inflight, SaveCall(SavedBlob("dec", s), "subBullets", value))
    /\ UNCHANGED <<rev, phase, bodyClasses, statusBar, styleEl, stored, doc, decorations,
                   reloaded, dom>>

\* onChange of the show-status-bar toggle, up to `await saveSettings()`
ShowStatusBarOnChange(value) ==
    /\ rev = "dec"
    /\ phase \in {"loaded", "running"}
    /\ CanSave
    /\ LET s == [settings EXCEPT !.showStatusBar = JBool(value)]
       IN  /\ settings' = s
           /\ inflight' = Append(inflight, SaveCall(SavedBlob("dec", s), "statusBar", value))
    /\ UNCHANGED <<rev, phase, bodyClasses, statusBar, styleEl, stored, doc, decorations,
                   reloaded, dom>>

\* Documents of the open editor
MachineDocs ==
    { <<TaskLine, SubLine, OtherLine>>, <<OtherLine, NestedTaskLine, EmptyLine>>, <<>> }

\* The user edits the document of the open editor
EditDoc ==
    /\ phase \in {"loaded", "running"}
    /\ \E d \in MachineDocs : d # doc /\ DocChanged(d)

\* ---- the host settles the oldest saveData call ----

\* The write succeeded: the data is stored and the code after the await runs
\* on the settings as they are now.
SaveResolved ==
    /\ inflight # <<>>
    /\ LET call == Head(inflight)
       IN  /\ stored' = call.data
           /\ styleEl' = IF call.after = "css" THEN afterSaveSettings(rev, Machine).styleEl
                         ELSE styleEl
           /\ bodyClasses' =
                  IF call.after = "subBullets" THEN updateBodyClasses(bodyClasses, settings)
                  ELSE IF call.after = "nested"
                       THEN toggleClass(bodyClasses, SubBulletsClass, JBool(call.value))
                  ELSE bodyClasses
           /\ decorations' =
                  IF call.after = "subBullets" THEN buildLineDecorations(doc, settings)
                  ELSE decorations
           /\ statusBar' =
                  IF call.after = "statusBar"
                  THEN IF call.value /\ ~statusBar.exists THEN El(StatusText(settings))
                       ELSE IF ~call.value /\ statusBar.exists THEN NoEl
                       ELSE statusBar
                  ELSE statusBar
           /\ dom' =
                  IF call.after = "nested"
                  THEN Mutated(updateNestedItemVisibility(dom, settings), phase = "running",
                               PluginWrites)
                  ELSE dom
    /\ inflight' = Tail(inflight)
    /\ UNCHANGED <<rev, phase, settings, doc, reloaded>>

\* The write was rejected: nothing is stored and the code after the await
\* does not run.
SaveRejected ==
    /\ inflight # <<>>
    /\ inflight' = Tail(inflight)
    /\ UNCHANGED <<rev, phase, settings, bodyClasses, statusBar, styleEl, stored, doc,
                   decorations, reloaded, dom>>

\* What the host may hold for the plugin when it starts: nothing, the old
\* { hiddenState } shape, settings saved by the same revision, or a file it
\* cannot read
StartBlobs(r) ==
    {JNull, JObj([hiddenState |-> JBool(FALSE)]), Unreadable}
    \cup (IF r = "sel"
          THEN { JObj([hiddenState |-> JBool(TRUE), incompleteSymbols |-> JArr(<< <<"!">> >>),
                       invertRule |-> JBool(TRUE)]) }
          ELSE { JObj([hiddenState |-> JBool(TRUE), showStatusBar |-> JBool(FALSE),
                       hideSubBullets |-> JBool(TRUE)]) })

\* The plugin instance the decoration revision constructs: no status bar
\* yet, settings not yet assigned; the editor shows some document.
ConstructedDec ==
    /\ rev = "dec"
    /\ phase = "constructed"
    /\ settings = Undefined
    /\ bodyClasses = {}
    /\ statusBar = NoEl
    /\ styleEl = NoEl
    /\ inflight = <<>>
    /\ doc \in MachineDocs
    /\ decorations = <<>>
    /\ reloaded = DEFAULT_SETTINGS_DEC
    /\ dom = CleanDom

Init ==
    \/ ConstructedSel /\ stored \in StartBlobs("sel")
    \/ ConstructedDec /\ stored \in StartBlobs("dec")

Next ==
    \/ OnLoadSel
    \/ \E via \in EntryPoints : ToggleSel(via)
    \/ \E value \in InputTexts : SymbolsOnChange(value)
    \/ \E value \in BOOLEAN : InvertOnChange(value)
    \/ OnLoadDec
    \/ LayoutReady
    \/ \E via \in EntryPoints : ToggleDec(via)
    \/ \E value \in BOOLEAN : HideSubBulletsOnChange(value)
    \/ \E value \in BOOLEAN : ShowStatusBarOnChange(value)
    \/ EditDoc
    \/ SaveResolved
    \/ SaveRejected

Spec == Init /\ [][Next]_vars

\* C8: whenever hiddenState is false nothing is hidden, whatever the other
\* settings: the decoration builder returns no ranges for the document and
\* the editor holds none, and every selector of the generated rule is gated
\* by the body class hide-completed-tasks, which is then absent, so the rule
\* hides no task.
C8_NothingHiddenWhenOff ==
    (phase # "constructed" /\ ~Truthy(settings.hiddenState)) =>
        /\ HideClass \notin bodyClasses
        /\ rev = "dec" =>
               /\ buildLineDecorations(doc, settings) = <<>>
               /\ decorations = <<>>
        /\ rev = "sel" =>
               /\ \A k \in DOMAIN StyleText : StyleText[k].gate = HideClass
               /\ \A v \in Views, m \in Markers :
                      ~Hidden(StyleText, bodyClasses, TaskEl(v, m))

C8_Witness ==
    /\ rev = "dec"
    /\ phase = "running"
    /\ ~Truthy(settings.hiddenState)
    /\ Truthy(settings.hideSubBullets)
    /\ doc = <<TaskLine, SubLine, OtherLine>>
    /\ stored # JNull /\ Truthy(stored.o.hiddenState)
    /\ decorations = <<>>

C8_WitnessSel ==
    /\ rev = "sel"
    /\ phase = "running"
    /\ ~Truthy(settings.hiddenState)
    /\ StyleText # <<>>
    /\ \A v \in Views : ~Hidden(StyleText, bodyClasses, TaskEl(v, <<"x">>))
    /\ \A v \in Views : Hidden(StyleText, {HideClass}, TaskEl(v, <<"x">>))

(***************************************************************************)
(* Start-up with unreadable data, toggles from both entry points, writes   *)
(* the host stores or rejects, and what the page shows once the handlers   *)
(* have run.                                                               *)
(***************************************************************************)

\* The plugin is usable: onload has registered the toggle command and the
\* settings tab
Usable == phase \in {"loaded", "running"}

\* C14: load() never throws to its caller: when the host's read of the
\* persisted data fails, load completes normally with default settings and
\* start-up continues to a usable state (toggle command and settings tab
\* registered).
C14_StartupSurvivesReadFailure ==
    (stored = Unreadable /\ phase # "constructed") =>
        /\ settings = DefaultsOf(rev)
        /\ Usable

\* The hiddenState a restart would load from what the host now stores
PersistedHidden == LoadOf(rev, stored).hiddenState

C18_OneMutationInFlight == Len(inflight) <= 1

\* What the user sees follows the settings in memory:
\* the body class hide-completed-tasks
BodyReflects == (HideClass \in bodyClasses) <=> Truthy(settings.hiddenState)

\* the text of the status indicator, when one is shown
StatusReflects == statusBar.exists => statusBar.text = StatusText(settings)

\* the injected style rule (selector strategy)
StyleFresh == rev = "sel" => (styleEl.exists /\ styleEl.text = buildDynamicCss(settings))

\* the decorations of the open editor (decoration strategy)
DecorationsFresh == rev = "dec" => decorations = buildLineDecorations(doc, settings)

\* the body class hide-sub-bullets and the presence of the status bar item
\* (decoration strategy)
PanelReflects ==
    rev = "dec" =>
        /\ (SubBulletsClass \in bodyClasses) <=> Truthy(settings.hideSubBullets)
        /\ statusBar.exists <=> Truthy(settings.showStatusBar)

\* C15: when the host rejects a persistence write the failure is swallowed
\* and the in-memory state stays correct for the session: once the rejected
\* write was the last one outstanding, the settings hold the new value and
\* the applied rule set (body classes, status text, generated style,
\* decorations) reflects them.
C15_RejectedWriteKeepsRuleSet ==
    [][(SaveRejected /\ inflight' = <<>> /\ phase = "running") =>
          (BodyReflects /\ StatusReflects /\ StyleFresh /\ DecorationsFresh /\ PanelReflects)'
      ]_vars

\* toggle() run to its end: the handler, then the code after the write
Toggled(st) == afterSaveSettings(rev, toggleCompletedTaskView(rev, st))

\* C12: invoking toggle() twice, from any state of the started plugin with
\* no handler pending, returns hiddenState to its original value and leaves
\* a rule set (generated CSS text, body marker class, decoration ranges)
\* equal to the one before the two toggles.
C12_ToggleTwiceRestores ==
    (phase = "running" /\ inflight = <<>>) =>
        LET once == Toggled(Machine)
            twice == Toggled(once)
        IN  /\ once.settings.hiddenState # settings.hiddenState
            /\ twice.settings = settings
            /\ (HideClass \in twice.bodyClasses) <=> (HideClass \in bodyClasses)
            /\ twice.decorations = decorations
            /\ twice.styleEl = styleEl

\* The plugin has started and no handler is waiting for a write
Quiescent == phase = "running" /\ inflight = <<>>

\* C16: after start-up and after every toggle() handler has run, the body
\* carries the class hide-completed-tasks if and only if hiddenState is true,
\* and the status indicator, when one is shown, reads exactly "Hiding
\* Completed Tasks" when hiddenState is true and "Showing Completed Tasks"
\* when it is false, for any sequence of toggles and showStatusBar changes.
C16_IndicatorsReflectHiddenState ==
    Quiescent =>
        /\ HideClass \in bodyClasses <=> Truthy(settings.hiddenState)
        /\ statusBar.exists =>
               statusBar.text = IF Truthy(settings.hiddenState)
                                THEN "Hiding Completed Tasks"
                                ELSE "Showing Completed Tasks"

\* C19: decoration strategy: after any document change and after any change
\* of hiddenState or hideSubBullets has been handled, the decoration set of
\* the open editor equals the full rebuild buildLineDecorations(current
\* document, current settings); no settings mutation leaves the editor
\* showing ranges computed from older settings.
C19_DecorationsFollowSettings ==
    (rev = "dec" /\ Quiescent) => decorations = buildLineDecorations(doc, settings)

\* C20: selector strategy: after every settings change (toggle, symbol list
\* edit, invert toggle) has been handled, the text of the injected style
\* element equals buildDynamicCss applied to the current settings.
C20_StyleFollowsSettings ==
    (rev = "sel" /\ Quiescent) =>
        /\ styleEl.exists
        /\ styleEl.text = buildDynamicCss(settings)

(***************************************************************************)
(* SpecInput: every short text typed into the symbols field of main.ts     *)
(***************************************************************************)
MaxTyped == 3

TypedChars == {"x", "!", ",", " "}

TypedTexts == UNION { [1..n -> TypedChars] : n \in 0..MaxTyped }

InitInput == ConstructedSel /\ stored = JNull

\* One text after the other: the next text is typed when the write of the
\* previous one has finished

NextInput ==
    \/ OnLoadSel
    \/ \E value \in TypedTexts : inflight = <<>> /\ SymbolsOnChange(value)
    \/ SaveResolved

SpecInput == InitInput /\ [][NextInput]_vars

\* Positions of value where a symbol starts: a character that is no
\* separator, at the start of the text or right after a separator
SymbolStarts(value) ==
    { i \in 1..Len(value) : ~IsSep(value[i]) /\ (i = 1 \/ IsSep(value[i - 1])) }

\* The symbol that starts at position i: up to the next separator
SymbolAt(value, i) ==
    LET j == CHOOSE j \in i..Len(value) :
                 /\ \A k \in i..j : ~IsSep(value[k])
                 /\ j = Len(value) \/ IsSep(value[j + 1])
    IN  SubSeq(value, i, j)

\* xs lists, in the order of the text, the symbols of value
ListsSymbolsInOrder(xs, value) ==
    /\ Len(xs) = Cardinality(SymbolStarts(value))
    /\ \A i \in SymbolStarts(value) :
           xs[Cardinality({ k \in SymbolStarts(value) : k <= i })] = SymbolAt(value, i)

NoBlankEntry(xs) == \A i \in DOMAIN xs : Trim(xs[i]) # <<>>

NoDuplicateEntry(xs) == \A i, j \in DOMAIN xs : xs[i] = xs[j] => i = j

\* C22 as stated: for every text entered in the symbols field, the stored
\* incompleteSymbols list holds no empty or whitespace-only entry and no
\* duplicate entry, and keeps the remaining symbols in their order of first
\* entry.
C22_SymbolsFilteredAndDeduplicated ==
    [][\A value \in TypedTexts : SymbolsOnChange(value) =>
          LET xs == settings'.incompleteSymbols.a
          IN  /\ NoBlankEntry(xs)
              /\ NoDuplicateEntry(xs)
              /\ { xs[i] : i \in DOMAIN xs } = { SymbolAt(value, i) : i \in SymbolStarts(value) }
              /\ \A i, j \in DOMAIN xs : i < j =>
                     \E p, q \in SymbolStarts(value) :
                         /\ p < q
                         /\ SymbolAt(value, p) = xs[i]
                         /\ SymbolAt(value, q) = xs[j]
      ]_vars

\* C22 (amended): for every text entered in the symbols field, the stored
\* incompleteSymbols list holds no empty or whitespace-only entry and lists
\* the symbols of the text in their order of entry; a symbol entered twice
\* is listed twice.
C22_SymbolsFilteredInOrder ==
    [][\A value \in TypedTexts : SymbolsOnChange(value) =>
          LET xs == settings'.incompleteSymbols.a
          IN  /\ NoBlankEntry(xs)
              /\ ListsSymbolsInOrder(xs, value)
              /\ inflight'[Len(inflight')].data.o.incompleteSymbols.a = xs
      ]_vars

\* "x, !" typed and stored; "x,x" typed after it
C22_Witness ==
    /\ rev = "sel"
    /\ stored # JNull
    /\ stored.o.incompleteSymbols.a = << <<"x">>, <<"!">> >>
    /\ settings.incompleteSymbols.a = << <<"x">>, <<"x">> >>
    /\ inflight # <<>>

(***************************************************************************)
(* SpecObs: the observer revision running over an editor whose lines the   *)
(* host renders and re-renders.  The show-status-bar setting keeps the     *)
(* value it was loaded with.                                               *)
(***************************************************************************)

\* Editors the host may show: a completed task with a sub-bullet and a
\* following item; an open task with a sub-bullet under a plain line; a
\* completed task nested under a completed task; no line
ObsDocs ==
    { << LineEl(TRUE, "x", 0), LineEl(FALSE, "", 40), LineEl(FALSE, "", 0) >>,
      << LineEl(FALSE, "", 0), LineEl(TRUE, " ", 0), LineEl(FALSE, "", 40) >>,
      << LineEl(TRUE, "X", 0), LineEl(TRUE, "x", 40) >>,
      << >> }

MaxObsInFlight == 1

CanSaveObs == Len(inflight) < MaxObsInFlight

\* The plugin instance the observer revision constructs
ConstructedObs ==
    /\ rev = "obs"
    /\ phase = "constructed"
    /\ settings = Undefined
    /\ bodyClasses = {}
    /\ statusBar = NoEl
    /\ styleEl = NoEl
    /\ inflight = <<>>
    /\ doc = <<>>
    /\ decorations = <<>>
    /\ reloaded = DEFAULT_SETTINGS_DEC
    /\ \E lines \in ObsDocs : dom = [CleanDom EXCEPT !.lines = lines]

\* onload() up to the registration of the layout-ready callback; when
\* loadData() rejects, the catch block assigns the default settings
OnLoadObs ==
    /\ rev = "obs"
    /\ phase = "constructed"
    /\ IF stored = Unreadable
       THEN /\ settings' = DEFAULT_SETTINGS_DEC
            /\ phase' = "failed"
            /\ UNCHANGED statusBar
       ELSE /\ LET s == loadSettingsDec(stored)
               IN  /\ settings' = s
                   /\ statusBar' = IF Truthy(s.showStatusBar) THEN El("") ELSE NoEl
            /\ phase' = "loaded"
    /\ UNCHANGED <<rev, bodyClasses, styleEl, stored, inflight, doc, decorations, reloaded,
                   dom>>

\* The onLayoutReady callback: status text, body classes, ribbon icon, the
\* observer connected, then the first updateNestedItemVisibility and
\* hideCompletedTaskGutters
LayoutReadyObs ==
    /\ rev = "obs"
    /\ phase = "loaded"
    /\ statusBar' = StatusAfterSetText(statusBar, settings)
    /\ bodyClasses' = updateBodyClasses(bodyClasses, settings)
    /\ phase' = "running"
    /\ dom' = Mutated(observerCallback(dom, settings), TRUE, PluginWrites)
    /\ UNCHANGED <<rev, settings, styleEl, stored, inflight, doc, decorations, reloaded>>

\* toggleCompletedTaskView() up to `await this.saveSettings()`
ToggleObs(via) ==
    /\ rev = "obs"
    /\ \/ via = "command" /\ phase \in {"loaded", "running"}
       \/ via = "ribbon" /\ phase = "running"
    /\ CanSaveObs
    /\ LET st == toggleCompletedTaskView("obs", Machine)
           d1 == updateNestedItemVisibility(dom, st.settings)
           d2 == IF Truthy(st.settings.hiddenState)
                 THEN hideCompletedTaskGutters(d1, st.settings)
                 ELSE restoreGutterElements(d1)
       IN  /\ settings' = st.settings
           /\ bodyClasses' = st.bodyClasses
           /\ statusBar' = st.statusBar
           /\ dom' = Mutated(d2, phase = "running", PluginWrites)
           /\ inflight' = Append(inflight,
                                 SaveCall(SavedBlob("obs", st.settings), "none", TRUE))
    /\ UNCHANGED <<rev, phase, styleEl, stored, doc, decorations, reloaded>>

\* onChange of the hide-sub-bullets toggle (the toggle is flipped), up to
\* `await saveSettings()`
HideSubBulletsOnChangeObs(value) ==
    /\ rev = "obs"
    /\ phase \in {"loaded", "running"}
    /\ value # Truthy(settings.hideSubBullets)
    /\ CanSaveObs
    /\ LET s == [settings EXCEPT !.hideSubBullets = JBool(value)]
       IN  /\ settings' = s
           /\ inflight' = Append(inflight, SaveCall(SavedBlob("obs", s), "nested", value))
    /\ UNCHANGED <<rev, phase, bodyClasses, statusBar, styleEl, stored, doc, decorations,
                   reloaded, dom>>

\* The MutationObserver callback runs
ObserverCallback ==
    /\ rev = "obs"
    /\ phase = "running"
    /\ dom.queued
    /\ dom' = Mutated(observerCallback([dom EXCEPT !.queued = FALSE], settings), TRUE,
                      PluginWrites)
    /\ UNCHANGED <<rev, phase, settings, bodyClasses, statusBar, styleEl, stored, inflight,
                   doc, decorations, reloaded>>

\* The host changes the data-task attribute of the task line at position i
\* (the task is checked or unchecked); the line elements stay the same
HostSetsTask(i, c) ==
    /\ rev = "obs"
    /\ i \in DOMAIN dom.lines
    /\ dom.lines[i].taskLine
    /\ dom.lines[i].dataTask # c
    /\ dom' = Mutated([dom EXCEPT !.lines[i].dataTask = c], phase = "running",
                      {Attribute("data-task")})
    /\ UNCHANGED <<rev, phase, settings, bodyClasses, statusBar, styleEl, stored, inflight,
                   doc, decorations, reloaded>>

\* The host renders another document: new line and gutter elements
HostRenders(lines) ==
    /\ rev = "obs"
    /\ lines # [i \in DOMAIN dom.lines |->
                   LineEl(dom.lines[i].taskLine, dom.lines[i].dataTask, dom.lines[i].indent)]
    /\ dom' = Mutated([dom EXCEPT !.lines = lines, !.gutters = {}], phase = "running",
                      {ChildList})
    /\ UNCHANGED <<rev, phase, settings, bodyClasses, statusBar, styleEl, stored, inflight,
                   doc, decorations, reloaded>>

InitObs == ConstructedObs /\ stored \in StartBlobs("obs")

NextObs ==
    \/ OnLoadObs
    \/ LayoutReadyObs
    \/ \E via \in EntryPoints : ToggleObs(via)
    \/ \E value \in BOOLEAN : HideSubBulletsOnChangeObs(value)
    \/ ObserverCallback
    \/ \E i \in DOMAIN dom.lines, c \in {"x", " "} : HostSetsTask(i, c)
    \/ \E lines \in ObsDocs : HostRenders(lines)
    \/ SaveResolved
    \/ SaveRejected

SpecObs == InitObs /\ [][NextObs]_vars

\* No handler of the observer revision is running or waiting to run
HandlersFinished ==
    /\ rev = "obs"
    /\ phase = "running"
    /\ inflight = <<>>
    /\ ~dom.queued

\* The hide-sub-bullets handler resumes after its write and runs to its end
HideSubBulletsResumes ==
    /\ rev = "obs"
    /\ inflight # <<>>
    /\ Head(inflight).after = "nested"
    /\ stored' = Head(inflight).data
    /\ inflight' = Tail(inflight)

\* C24: in the observer revision, whenever hiddenState is true and the
\* plugin's handlers (toggle, hide-sub-bullets change, observer callback)
\* have finished, the gutter element of every completed task line is hidden;
\* and the hide-sub-bullets handler never un-hides the gutter element of a
\* completed task line.
C24_CompletedTaskGuttersHidden ==
    /\ []((HandlersFinished /\ Truthy(settings.hiddenState))
             => CompletedEls(dom.lines) \subseteq dom.gutters)
    /\ [][HideSubBulletsResumes =>
              (CompletedEls(dom.lines) \cap dom.gutters) \subseteq dom'.gutters]_vars

\* A handler that calls updateNestedItemVisibility() runs it
RunsUpdateNestedItemVisibility ==
    \/ \E via \in EntryPoints : ToggleObs(via)
    \/ HideSubBulletsResumes
    \/ ObserverCallback /\ Truthy(settings.hideSubBullets)
    \/ LayoutReadyObs /\ Truthy(settings.hideSubBullets)

\* Line i of lines is in the more-indented block under a completed task line
UnderCompletedTask(lines, i) ==
    \E p \in 1..(i - 1) :
        /\ lines[p].taskLine /\ lines[p].dataTask \in {"x", "X"}
        /\ \A k \in (p + 1)..i : lines[k].indent > lines[p].indent

\* C25: in the observer revision, after every run of
\* updateNestedItemVisibility a line has the inline display none only if
\* hiddenState and hideSubBullets are both true and the line lies in the
\* more-indented block under a completed task line; so a line hidden earlier
\* is visible again once its parent task is no longer completed.
C25_NestedHiddenOnlyUnderCompletedTask ==
    [][RunsUpdateNestedItemVisibility =>
          \A i \in DOMAIN dom'.lines :
              dom'.lines[i].display = "none" =>
                  /\ Truthy(settings'.hiddenState)
                  /\ Truthy(settings'.hideSubBullets)
                  /\ UnderCompletedTask(dom'.lines, i)
      ]_vars

\* A queued observer callback is a task of the page's event loop: it runs
SpecObsFair == SpecObs /\ WF_vars(ObserverCallback)

\* What the host rendered, without what the plugin wrote on it
Rendered(lines) ==
    [i \in DOMAIN lines |-> LineEl(lines[i].taskLine, lines[i].dataTask, lines[i].indent)]

\* C21: in the observer revision applying the hiding never re-triggers the
\* recomputation: a step queues the observer callback only when the host
\* has changed what it renders (never a step of a plugin handler, and the
\* callback's own run leaves no callback queued), and every queued callback
\* is followed by a state with no callback queued.
C21_HidingDoesNotRetrigger ==
    /\ [][(dom'.queued /\ (~dom.queued \/ ObserverCallback))
             => Rendered(dom'.lines) # Rendered(dom.lines)]_vars
    /\ (dom.queued ~> ~dom.queued)

\* The open task in the second line was checked; the hiding is applied to
\* its sub-bullet and the gutter elements of both, the observer is connected
\* and no callback is queued
C21_Witness ==
    /\ HandlersFinished
    /\ Len(dom.lines) = 3
    /\ dom.lines[2].taskLine /\ dom.lines[2].dataTask = "x"
    /\ dom.lines[3].nested /\ dom.lines[3].display = "none"
    /\ dom.gutters = {2, 3}

====
